---- MODULE Spec2Model ----
(***************************************************************************)
(* Buffer accounting of the gsat machine interface adapters:               *)
(* MachIf_GRBL (modules/grbl_machif.py) and MachIf_g2core                  *)
(* (modules/g2core_machif.py).                                             *)
(*                                                                         *)
(* One adapter object is modelled per behaviour; `self` holds its fields.  *)
(* Byte strings are sequences of one-character strings.  A controller line *)
(* is a record saying which of the adapter's patterns it matches and what  *)
(* the groups capture.  The base class modules/machif.py is not part of    *)
(* the sources; what the adapters use of it (_reset, okToSend, write, the  *)
(* control command strings) follows the design document.                   *)
(* The base-class attribute machinePositionMode, written by                *)
(* MachIf_GRBL.encode and read by neither adapter, is left out.            *)
(***************************************************************************)
EXTENDS Integers, Sequences, FiniteSets, TLC

VARIABLES
    self,       \* the adapter object's fields
    stateData,  \* the session configuration shared with the caller
    now,        \* the wall clock, in milliseconds
    ret,        \* the last call: its name, its input and what it returned
    sentLens,   \* history: wire lengths of the accounted commands since reset
    nAck,       \* history: buffer-freeing decodes since reset
    nPop,       \* history: those of them that found a pending length
    owed        \* the controller: status reports it has yet to send for the
                \* status polls it was sent

vars == <<self, stateData, now, ret, sentLens, nAck, nPop, owed>>

(***************************************************************************)
(* Bounds of the model.                                                    *)
(***************************************************************************)
MaxSent == 2        \* accounted commands encoded between two resets
MaxEmptyAcks == 1   \* acknowledgements decoded on an empty queue between two resets
MaxPolls == 1       \* status-poll bytes accounted and not yet reported
MaxStray == 1       \* status reports decoded beyond the polls accounted

None == <<>>
Some(x) == <<x>>

(***************************************************************************)
(* grbl_machif.py: module constants.                                       *)
(***************************************************************************)
GRBL_STATE_UKNOWN == 1000
GRBL_STATE_IDLE == 1010
GRBL_STATE_RUN == 1020
GRBL_STATE_HOLD == 1030
GRBL_STATE_JOG == 1040
GRBL_STATE_ALRARM == 1050
GRBL_STATE_DOOR == 1060
GRBL_STATE_CHECK == 1070
GRBL_STATE_HOME == 1080
GRBL_STATE_SLEEP == 1090
GRBL_STATE_STOP == 1100

BUFFER_MAX_SIZE == 127
BUFFER_INIT_VAL == 0
\* BUFFER_WATERMARK_PRCNT = 0.90, kept as a percentage
BUFFER_WATERMARK_PRCNT == 90

\* g2core_machif.py, __init__: 255, 0, 0.90
G2CORE_BUFFER_MAX_SIZE == 255
G2CORE_BUFFER_INIT_VAL == 0
G2CORE_BUFFER_WATERMARK_PRCNT == 90

StatTokens == {"Idle", "Run", "Hold", "Jog", "Alarm", "Door", "Check",
               "Home", "Sleep", "Stop"}

\* stat_dict.get(token, GRBL_STATE_UKNOWN)
stat_dict_get(token) ==
    CASE token = "Idle" -> GRBL_STATE_IDLE
      [] token = "Run" -> GRBL_STATE_RUN
      [] token = "Hold" -> GRBL_STATE_HOLD
      [] token = "Jog" -> GRBL_STATE_JOG
      [] token = "Alarm" -> GRBL_STATE_ALRARM
      [] token = "Door" -> GRBL_STATE_DOOR
      [] token = "Check" -> GRBL_STATE_CHECK
      [] token = "Home" -> GRBL_STATE_HOME
      [] token = "Sleep" -> GRBL_STATE_SLEEP
      [] token = "Stop" -> GRBL_STATE_STOP
      [] OTHER -> GRBL_STATE_UKNOWN

(***************************************************************************)
(* Control command strings.                                                *)
(***************************************************************************)
cmdStatus == <<"?">>
cmdPostInit == <<"$", "I", "\n">>
\* base class
getCycleStartCmd == <<"~">>
getFeedHoldCmd == <<"!">>
cmdReset == <<"^X">>
cmdInitComm == cmdReset

(***************************************************************************)
(* Byte-string helpers.                                                    *)
(***************************************************************************)
\* data.find(sub) != -1, for a one-character sub
Find(data, sub) == \E i \in 1..Len(data) : data[i] = sub[1]

\* data.replace(sub, ""), for a one-character sub
Replace(data, sub) == SelectSeq(data, LAMBDA c : c /= sub[1])

RECURSIVE SumSeq(_)
SumSeq(q) == IF q = <<>> THEN 0 ELSE Head(q) + SumSeq(Tail(q))

(***************************************************************************)
(* MachIf_Base (modules/machif.py, not among the sources): the parts the   *)
(* adapters call, after the design document's Machine Interface Contract.  *)
(***************************************************************************)
\* _reset(buf_size, buf_init, buf_watermark): accounting back to capacity/0 used
BaseReset(s, buf_size, buf_init, buf_watermark) ==
    [s EXCEPT !.inputBufferMaxSize = buf_size,
              !.inputBufferWatermarkPrcnt = buf_watermark,
              !.inputBufferSize = buf_init]

(***************************************************************************)
(* MachIf_GRBL                                                             *)
(***************************************************************************)
\* __init__
GRBL_new ==
    [kind |-> "grbl",
     inputBufferMaxSize |-> BUFFER_MAX_SIZE,
     inputBufferWatermarkPrcnt |-> BUFFER_WATERMARK_PRCNT,
     inputBufferSize |-> BUFFER_INIT_VAL,
     inputBufferPart |-> <<>>,
     machineAutoRefresh |-> FALSE,
     machineStatus |-> GRBL_STATE_UKNOWN,
     autoStatusNextMicro |-> None,
     initStringDetectFlag |-> FALSE,
     clearAlarmFlag |-> FALSE]

\* a variant of _init that forgets to empty the queue of pending lengths
GRBL_init_KeepQueue(s) ==
    BaseReset(s, BUFFER_MAX_SIZE, BUFFER_INIT_VAL, BUFFER_WATERMARK_PRCNT)

\* _init
GRBL_init(s) ==
    [BaseReset(s, BUFFER_MAX_SIZE, BUFFER_INIT_VAL, BUFFER_WATERMARK_PRCNT)
        EXCEPT !.inputBufferPart = <<>>]

\* a variant of the status character's part that accounts no byte for it
EncodeStatusChar_NoCount(s, data, bookeeping) ==
    IF Find(data, cmdStatus)
    THEN [self |-> s, data |-> Replace(data, cmdStatus) \o cmdStatus]
    ELSE [self |-> s, data |-> data]

\* encode, the status character: all "?" removed, one appended, one byte accounted
EncodeStatusChar(s, data, bookeeping) ==
    IF Find(data, cmdStatus)
    THEN [self |-> IF bookeeping
                   THEN [s EXCEPT !.inputBufferSize = @ + 1]
                   ELSE s,
          data |-> Replace(data, cmdStatus) \o cmdStatus]
    ELSE [self |-> s, data |-> data]

\* encode, an accounted command: its length is added and queued
GRBL_EncodeAccount(s, data) ==
    [s EXCEPT !.inputBufferSize = @ + Len(data),
              !.inputBufferPart = Append(@, Len(data))]

\* a variant of encode without the test for cycle-start and feed-hold
GRBL_encode_NoOutOfBand(s, data, bookeeping) ==
    IF Len(data) = 0
    THEN [self |-> s, data |-> data]
    ELSE LET e == EncodeStatusChar(s, data, bookeeping)
         IN  IF e.data = cmdStatus /\ bookeeping
             THEN e
             ELSE IF bookeeping
             THEN [self |-> GRBL_EncodeAccount(e.self, e.data), data |-> e.data]
             ELSE e

\* encode(data, bookeeping)
GRBL_encode(s, data, bookeeping) ==
    IF Len(data) = 0
    THEN [self |-> s, data |-> data]
    ELSE LET e == EncodeStatusChar(s, data, bookeeping)
         IN  IF e.data = cmdStatus /\ bookeeping
             THEN e
             ELSE IF e.data \in {getCycleStartCmd, getFeedHoldCmd}
             THEN e
             ELSE IF bookeeping
             THEN [self |-> GRBL_EncodeAccount(e.self, e.data), data |-> e.data]
             ELSE e

(***************************************************************************)
(* Lines of the GRBL controller.  head says which of the patterns anchored *)
(* at the start of the line matches (reGrblMachineStatus, reGrblMachineAck,*)
(* reGrblMachineError, reGrblVersion, reGrblInitStr: their first           *)
(* characters differ, so at most one does); alarm says whether "ALARM:"    *)
(* occurs in the line (reGrblAlarm is searched anywhere; the ack pattern   *)
(* leaves no room for it).                                                 *)
(***************************************************************************)
GrblLine(head, stat, err, alarm) ==
    [head |-> head, stat |-> stat, err |-> err, alarm |-> alarm]

\* the status tokens of the lines decoded: two of the table and one outside it
LineStatTokens == {"Idle", "Run", "Bogus"}
ErrTexts == {"20", "Unsupported command"}

GrblLines ==
    {GrblLine("status", t, "", FALSE) : t \in LineStatTokens}
    \cup {GrblLine("ok", "", "", FALSE)}
    \cup {GrblLine("error", "", e, FALSE) : e \in ErrTexts}
    \cup {GrblLine(h, "", "", FALSE) : h \in {"version", "init", "other"}}
    \cup {GrblLine("status", "Run", "", TRUE), GrblLine("error", "", "20", TRUE),
          GrblLine("other", "", "", TRUE)}

\* error_code: int(text) if text.isdigit() else -1
ErrorCode(text) == IF text = "20" THEN 20 ELSE -1

EmptyDict == [sr |-> None, r |-> FALSE, fb |-> FALSE, f |-> None, ib |-> None]

\* a variant of the status-report branch that sets the deadline on every
\* change of status
DecodeStatus_ArmOnAnyChange(s, d, line, t, period) ==
    IF line.head = "status"
    THEN LET s1 == IF s.inputBufferSize >= 1
                   THEN [s EXCEPT !.inputBufferSize = @ - 1]
                   ELSE s
             decodedStatus == stat_dict_get(line.stat)
             s2 == IF s1.machineStatus /= decodedStatus
                   THEN [s1 EXCEPT !.autoStatusNextMicro = Some(t + period),
                                   !.machineStatus = decodedStatus]
                   ELSE s1
         IN  [self |-> s2, dataDict |-> [d EXCEPT !.sr = Some(line.stat)]]
    ELSE [self |-> s, dataDict |-> d]

\* decode, status report: one byte (the "?") is taken off the buffer, the
\* status is recorded and a change into Run or Jog arms the deadline
DecodeStatus(s, d, line, t, period) ==
    IF line.head = "status"
    THEN LET s1 == IF s.inputBufferSize >= 1
                   THEN [s EXCEPT !.inputBufferSize = @ - 1]
                   ELSE s
             decodedStatus == stat_dict_get(line.stat)
             s2 == IF s1.machineStatus /= decodedStatus
                   THEN [s1 EXCEPT
                           !.autoStatusNextMicro =
                               IF decodedStatus \in {GRBL_STATE_RUN, GRBL_STATE_JOG}
                               THEN Some(t + period) ELSE @,
                           !.machineStatus = decodedStatus]
                   ELSE s1
         IN  [self |-> s2, dataDict |-> [d EXCEPT !.sr = Some(line.stat)]]
    ELSE [self |-> s, dataDict |-> d]

\* a variant of the pop that takes the newest pending length
PopPart_Lifo(s) ==
    LET n == Len(s.inputBufferPart)
        bufferPart == IF n > 0 THEN s.inputBufferPart[n] ELSE 0
    IN  [self |-> [s EXCEPT !.inputBufferPart =
                                IF n > 0 THEN SubSeq(@, 1, n - 1) ELSE @,
                            !.inputBufferSize = @ - bufferPart],
         bufferPart |-> bufferPart]

\* a variant of the pop without the test for an empty queue: one byte is
\* freed when nothing is pending
PopPart_NoEmptyCheck(s) ==
    LET bufferPart == IF Len(s.inputBufferPart) > 0
                      THEN Head(s.inputBufferPart) ELSE 1
    IN  [self |-> [s EXCEPT !.inputBufferPart =
                                IF Len(@) > 0 THEN Tail(@) ELSE @,
                            !.inputBufferSize = @ - bufferPart],
         bufferPart |-> bufferPart]

\* decode, ack and error: the oldest pending length, 0 on an empty queue, is
\* taken off the buffer
PopPart(s) ==
    LET bufferPart == IF Len(s.inputBufferPart) > 0
                      THEN Head(s.inputBufferPart) ELSE 0
    IN  [self |-> [s EXCEPT !.inputBufferPart =
                                IF Len(@) > 0 THEN Tail(@) ELSE @,
                            !.inputBufferSize = @ - bufferPart],
         bufferPart |-> bufferPart]

DecodeAck(s, d, line) ==
    IF line.head = "ok"
    THEN LET p == PopPart(s)
         IN  [self |-> p.self,
              dataDict |-> [d EXCEPT !.r = TRUE,
                                     !.f = Some(<<0, 0, p.bufferPart>>),
                                     !.ib = Some(<<p.self.inputBufferMaxSize,
                                                   p.self.inputBufferSize>>)]]
    ELSE [self |-> s, dataDict |-> d]

\* decode, alarm: the event's status becomes "Alarm"; decodedStatus is
\* computed and not stored
DecodeAlarm(s, d, line) ==
    IF line.alarm
    THEN [self |-> s, dataDict |-> [d EXCEPT !.sr = Some("Alarm")]]
    ELSE [self |-> s, dataDict |-> d]

DecodeError(s, d, line) ==
    IF line.head = "error"
    THEN LET p == PopPart(s)
         IN  [self |-> p.self,
              dataDict |-> [d EXCEPT !.r = TRUE,
                                     !.f = Some(<<0, ErrorCode(line.err),
                                                  p.bufferPart>>),
                                     !.ib = Some(<<p.self.inputBufferMaxSize,
                                                   p.self.inputBufferSize>>)]]
    ELSE [self |-> s, dataDict |-> d]

DecodeVersion(s, d, line) ==
    IF line.head = "version"
    THEN [self |-> s,
          dataDict |-> [d EXCEPT !.r = TRUE, !.fb = TRUE,
                                 !.f = Some(<<0, 0, 0>>),
                                 !.ib = Some(<<s.inputBufferMaxSize,
                                               s.inputBufferSize>>)]]
    ELSE [self |-> s, dataDict |-> d]

DecodeInitStr(s, d, line) ==
    IF line.head = "init"
    THEN [self |-> [s EXCEPT !.initStringDetectFlag = TRUE], dataDict |-> d]
    ELSE [self |-> s, dataDict |-> d]

\* decode(data): every pattern is tried in turn on the same line
GRBL_decode(s, line, t, period) ==
    LET a == DecodeStatus(s, EmptyDict, line, t, period)
        b == DecodeAck(a.self, a.dataDict, line)
        c == DecodeAlarm(b.self, b.dataDict, line)
        e == DecodeError(c.self, c.dataDict, line)
        f == DecodeVersion(e.self, e.dataDict, line)
        g == DecodeInitStr(f.self, f.dataDict, line)
    IN  [self |-> g.self, dataDict |-> g.dataDict, raised |-> FALSE]

(***************************************************************************)
(* MachIf_Base, continued.                                                 *)
(***************************************************************************)
\* okToSend(data): bufferUsed + encodedLength(data) <= capacity * watermark,
\* the length being that of encode(data, bookeeping=False)
okToSend(s, encoded) ==
    100 * (s.inputBufferSize + Len(encoded))
        <= s.inputBufferMaxSize * s.inputBufferWatermarkPrcnt

GRBL_okToSend(s, data) == okToSend(s, GRBL_encode(s, data, FALSE).data)

\* write(txData, raw_write): the text is encoded, with bookkeeping, unless it
\* is written raw, and handed to the transport
GRBL_BaseWrite(s, txData, raw_write) ==
    IF raw_write
    THEN [self |-> s, sent |-> <<txData>>]
    ELSE LET e == GRBL_encode(s, txData, TRUE)
         IN  [self |-> e.self, sent |-> <<e.data>>]

(***************************************************************************)
(* MachIf_GRBL, continued.                                                 *)
(***************************************************************************)
SettledStates == {GRBL_STATE_IDLE, GRBL_STATE_STOP, GRBL_STATE_HOME,
                  GRBL_STATE_SLEEP, GRBL_STATE_HOLD}

\* a variant of write that sends the status poll without asking okToSend
GRBL_write_NoGate(s, txData, raw_write, t, period) ==
    LET askForStatus == s.machineStatus \in SettledStates
        w == GRBL_BaseWrite(s, txData, raw_write)
    IN  IF askForStatus /\ w.self.machineAutoRefresh
        THEN LET p == GRBL_BaseWrite(w.self, cmdStatus, FALSE)
             IN  [self |-> [p.self EXCEPT !.autoStatusNextMicro = Some(t + period)],
                  sent |-> w.sent \o p.sent]
        ELSE w

\* write(txData, raw_write)
GRBL_write(s, txData, raw_write, t, period) ==
    LET askForStatus == s.machineStatus \in SettledStates
        w == GRBL_BaseWrite(s, txData, raw_write)
    IN  IF askForStatus /\ w.self.machineAutoRefresh
        THEN LET p == IF GRBL_okToSend(w.self, cmdStatus)
                      THEN GRBL_BaseWrite(w.self, cmdStatus, FALSE)
                      ELSE [self |-> w.self, sent |-> <<>>]
             IN  [self |-> [p.self EXCEPT !.autoStatusNextMicro = Some(t + period)],
                  sent |-> w.sent \o p.sent]
        ELSE w

\* doInitComm
GRBL_doInitComm(s, t, period) ==
    LET w == GRBL_write(s, cmdInitComm, FALSE, t, period)
    IN  [self |-> GRBL_init(w.self), sent |-> w.sent]

\* the clock minute, in milliseconds
MilliPerMinute == 60000

\* second * 1000 + microsecond / 1000 of a time: the minutes and above are lost
Milli(t) == t % MilliPerMinute

\* the status poll, sent when okToSend allows it
SendStatus(s) ==
    IF GRBL_okToSend(s, cmdStatus)
    THEN GRBL_BaseWrite(s, cmdStatus, FALSE)
    ELSE [self |-> s, sent |-> <<>>]

\* a variant of the deadline part that keeps the deadline when the status is
\* neither Run nor Jog
TickDeadline_NoDrop(s, t, period) ==
    IF s.autoStatusNextMicro /= None
       /\ s.machineStatus \in {GRBL_STATE_RUN, GRBL_STATE_JOG}
       /\ Milli(t) - Milli(s.autoStatusNextMicro[1]) >= 0
    THEN LET w == SendStatus(s)
         IN  [self |-> [w.self EXCEPT !.autoStatusNextMicro = Some(t + period)],
              sent |-> w.sent]
    ELSE [self |-> s, sent |-> <<>>]

\* tick, the deadline: with a deadline and the status Run or Jog, the poll is
\* sent and the deadline set again when the deadline has passed; with a
\* deadline and any other status, the deadline is dropped
TickDeadline(s, t, period) ==
    IF s.autoStatusNextMicro /= None
       /\ s.machineStatus \in {GRBL_STATE_RUN, GRBL_STATE_JOG}
    THEN IF Milli(t) - Milli(s.autoStatusNextMicro[1]) >= 0
         THEN LET w == SendStatus(s)
              IN  [self |-> [w.self EXCEPT !.autoStatusNextMicro = Some(t + period)],
                   sent |-> w.sent]
         ELSE [self |-> s, sent |-> <<>>]
    ELSE IF s.autoStatusNextMicro /= None
    THEN [self |-> [s EXCEPT !.autoStatusNextMicro = None], sent |-> <<>>]
    ELSE [self |-> s, sent |-> <<>>]

\* a variant of the flag part with the two cases exchanged: a stored True
\* sends the poll and sets the deadline, a stored False drops the deadline
TickFlagChange_Exchanged(s, t, state_data) ==
    IF s.machineAutoRefresh /= state_data.machineStatusAutoRefresh
    THEN LET w == IF s.machineAutoRefresh = TRUE
                  THEN LET p == SendStatus(s)
                       IN  [self |-> [p.self EXCEPT !.autoStatusNextMicro =
                                Some(t + state_data.machineStatusAutoRefreshPeriod)],
                            sent |-> p.sent]
                  ELSE [self |-> [s EXCEPT !.autoStatusNextMicro = None],
                        sent |-> <<>>]
         IN  [self |-> [w.self EXCEPT !.machineAutoRefresh =
                                          state_data.machineStatusAutoRefresh],
              sent |-> w.sent]
    ELSE [self |-> s, sent |-> <<>>]

\* tick, the auto-refresh flag: when it differs from the caller's, a stored
\* False sends the poll and sets the deadline, a stored True drops the
\* deadline; the caller's value is stored
TickFlagChange(s, t, state_data) ==
    IF s.machineAutoRefresh /= state_data.machineStatusAutoRefresh
    THEN LET w == IF s.machineAutoRefresh = FALSE
                  THEN LET p == SendStatus(s)
                       IN  [self |-> [p.self EXCEPT !.autoStatusNextMicro =
                                Some(t + state_data.machineStatusAutoRefreshPeriod)],
                            sent |-> p.sent]
                  ELSE [self |-> [s EXCEPT !.autoStatusNextMicro = None],
                        sent |-> <<>>]
         IN  [self |-> [w.self EXCEPT !.machineAutoRefresh =
                                          state_data.machineStatusAutoRefresh],
              sent |-> w.sent]
    ELSE [self |-> s, sent |-> <<>>]

\* a variant of the init part that leaves the flag set
TickPostInit_KeepFlag(s) ==
    IF s.initStringDetectFlag
    THEN GRBL_BaseWrite(s, cmdPostInit, FALSE)
    ELSE [self |-> s, sent |-> <<>>]

\* tick, the init string: the flag is cleared and the post-init query written
TickPostInit(s) ==
    IF s.initStringDetectFlag
    THEN GRBL_BaseWrite([s EXCEPT !.initStringDetectFlag = FALSE], cmdPostInit, FALSE)
    ELSE [self |-> s, sent |-> <<>>]

\* tick, the clear-alarm flag
TickClearAlarm(s) ==
    IF s.clearAlarmFlag THEN [s EXCEPT !.clearAlarmFlag = FALSE] ELSE s

\* tick(): the four parts in turn; deadline, flag and init are what each part
\* handed to the transport, dropped whether the first part dropped a deadline
GRBL_tick(s, t, state_data) ==
    LET a == TickDeadline(s, t, state_data.machineStatusAutoRefreshPeriod)
        b == TickFlagChange(a.self, t, state_data)
        c == TickPostInit(b.self)
    IN  [self |-> TickClearAlarm(c.self),
         sent |-> a.sent \o b.sent \o c.sent,
         parts |-> [deadline |-> a.sent, flag |-> b.sent, init |-> c.sent,
                    dropped |-> s.autoStatusNextMicro /= None
                                /\ a.self.autoStatusNextMicro = None]]

(***************************************************************************)
(* MachIf_g2core                                                           *)
(***************************************************************************)
\* __init__
g2core_new ==
    [kind |-> "g2core",
     inputBufferMaxSize |-> G2CORE_BUFFER_MAX_SIZE,
     inputBufferWatermarkPrcnt |-> G2CORE_BUFFER_WATERMARK_PRCNT,
     inputBufferSize |-> G2CORE_BUFFER_INIT_VAL,
     inputBufferPart |-> <<>>]

\* reset
g2core_reset(s) ==
    [BaseReset(s, s.inputBufferMaxSize, 0, s.inputBufferWatermarkPrcnt)
        EXCEPT !.inputBufferPart = <<>>]

\* encode, an accounted command
g2core_EncodeAccount(s, data) ==
    [s EXCEPT !.inputBufferSize = @ + Len(data),
              !.inputBufferPart = Append(@, Len(data))]

\* encode(data, bookeeping)
g2core_encode(s, data, bookeeping) ==
    IF data \in {getCycleStartCmd, getFeedHoldCmd}
    THEN [self |-> s, data |-> data]
    ELSE IF bookeeping
    THEN [self |-> g2core_EncodeAccount(s, data), data |-> data]
    ELSE [self |-> s, data |-> data]

g2core_okToSend(s, data) == okToSend(s, g2core_encode(s, data, FALSE).data)

(***************************************************************************)
(* Lines of the g2core controller, by what json.loads makes of them:       *)
(*   "text"     not JSON, and no text acknowledgement                      *)
(*   "textack"  not JSON, matching reG2CoreMachineAck                      *)
(*   "scalar"   a JSON number, true, false or null ('r' in value raises)   *)
(*   "string"   a JSON string; hasR: the letter r occurs in it             *)
(*   "array"    a JSON array; hasR: "r" is one of its elements             *)
(*   "object"   a JSON object; hasR: it has the key "r", of value r; sr is *)
(*              the value of its key "sr"                                   *)
(* A value is a record with t = "absent", "scalar" (not a container: `in`  *)
(* raises on it), "str" (a string holding none of the keys looked up) or   *)
(* "object".  A text that json.loads accepts never matches the text        *)
(* acknowledgement pattern, which wants "ok>" and white space at the end.  *)
(***************************************************************************)
SrValue(t, stat, mpox) == [t |-> t, stat |-> stat, mpox |-> mpox]
SrAbsent == SrValue("absent", None, FALSE)
SrScalar == SrValue("scalar", None, FALSE)

RValue(t, sr) == [t |-> t, sr |-> sr]
RAbsent == RValue("absent", SrAbsent)

G2Line(json, hasR, r, sr) == [json |-> json, hasR |-> hasR, r |-> r, sr |-> sr]

\* the stat codes of the lines decoded: in the table, and 14 outside it
StatCodes == {1, 5, 9, 14}
SrObjects == {SrValue("object", st, FALSE) :
                 st \in {None} \cup {Some(c) : c \in StatCodes}}
             \cup {SrValue("object", Some(1), TRUE)}
NestedSr == {SrAbsent, SrScalar} \cup SrObjects
TopSr == {SrAbsent, SrScalar, SrValue("object", Some(5), FALSE)}
RValues == {RValue("scalar", SrAbsent), RValue("str", SrAbsent)}
           \cup {RValue("object", sr) : sr \in NestedSr}

G2Lines ==
    {G2Line(j, FALSE, RAbsent, SrAbsent) : j \in {"text", "textack", "scalar"}}
    \cup {G2Line(j, h, RAbsent, SrAbsent) : j \in {"string", "array"}, h \in BOOLEAN}
    \cup {G2Line("object", FALSE, RAbsent, sr) : sr \in TopSr}
    \cup {G2Line("object", TRUE, r, sr) : r \in RValues, sr \in TopSr}

\* the stat table: the name that replaces a numeric code, "" when none does
g2core_stat(status) ==
    CASE status = 0 -> "Init"
      [] status = 1 -> "Ready"
      [] status = 2 -> "Alarm"
      [] status = 3 -> "Prog Stop"
      [] status = 4 -> "Prog End"
      [] status = 5 -> "Run"
      [] status = 6 -> "Hold"
      [] status = 7 -> "Probe"
      [] status = 8 -> "Run"
      [] status = 9 -> "Homeming"
      [] status = 10 -> "Jog"
      [] status = 11 -> "InterLock"
      [] status = 12 -> "Shutdown"
      [] status = 13 -> "Panic"
      [] OTHER -> ""

\* The value decode returns.  val: "dict", or the JSON kind of a value that is
\* no dict; sr: the top-level status report; statName: the name now in
\* sr['stat'] ("" while it holds the controller's number, or is absent);
\* posx: whether sr has posx copied from mpox; ib: the buffer-state facet.
G2Dict(val, hasR, sr, statName, posx, ib) ==
    [val |-> val, hasR |-> hasR, sr |-> sr, statName |-> statName,
     posx |-> posx, ib |-> ib]
G2EmptyDict == G2Dict("dict", FALSE, SrAbsent, "", FALSE, None)

\* try: json.loads(data)
G2Loads(line) ==
    IF line.json \in {"text", "textack"}
    THEN [d |-> G2EmptyDict, exc |-> TRUE]
    ELSE [d |-> G2Dict(IF line.json = "object" THEN "dict" ELSE line.json,
                       line.hasR, line.sr, "", FALSE, None),
          exc |-> FALSE]

\* try: if 'r' in dataDict: hoist the response's status report
G2HoistSr(x, line) ==
    IF x.exc THEN x
    ELSE IF x.d.val = "scalar" THEN [x EXCEPT !.exc = TRUE]
    ELSE IF ~x.d.hasR THEN x
    ELSE IF x.d.val /= "dict" THEN [x EXCEPT !.exc = TRUE]
    ELSE IF line.r.t = "scalar" THEN [x EXCEPT !.exc = TRUE]
    ELSE IF line.r.t = "object" /\ line.r.sr.t /= "absent"
    THEN [x EXCEPT !.d.sr = line.r.sr]
    ELSE x

\* try: if 'sr' in dataDict: translate stat, copy the machine position
G2StatusReport(x) ==
    IF x.exc \/ x.d.val /= "dict" \/ x.d.sr.t = "absent" THEN x
    ELSE IF x.d.sr.t = "scalar" THEN [x EXCEPT !.exc = TRUE]
    ELSE [x EXCEPT !.d.statName =
                       IF x.d.sr.stat /= None
                       THEN g2core_stat(x.d.sr.stat[1]) ELSE "",
                   !.d.posx = x.d.sr.mpox]

\* try: dataDict['ib'] = [max, size]
G2AttachIb(x, s) ==
    IF x.exc THEN x
    ELSE IF x.d.val /= "dict" THEN [x EXCEPT !.exc = TRUE]
    ELSE [x EXCEPT !.d.ib = Some(<<s.inputBufferMaxSize, s.inputBufferSize>>)]

\* except: the text acknowledgement
G2Except(x, line) ==
    IF x.exc /\ line.json = "textack"
    THEN [x EXCEPT !.d.hasR = TRUE]
    ELSE x

\* a variant of the pop that leaves bufferUsed as it is
g2core_PopPart_NoSubtract(s) ==
    IF Len(s.inputBufferPart) > 0
    THEN [s EXCEPT !.inputBufferPart = Tail(@)]
    ELSE s

\* if 'r' in dataDict: the oldest pending length is taken off the buffer
g2core_PopPart(s) ==
    IF Len(s.inputBufferPart) > 0
    THEN [s EXCEPT !.inputBufferPart = Tail(@),
                   !.inputBufferSize = @ - Head(s.inputBufferPart)]
    ELSE s

\* decode(data)
g2core_decode(s, line) ==
    LET x == G2Except(G2AttachIb(G2StatusReport(G2HoistSr(G2Loads(line), line)), s),
                      line)
    IN  IF x.d.val = "scalar"
        THEN [self |-> s, dataDict |-> x.d, raised |-> TRUE]
        ELSE IF x.d.hasR
        THEN [self |-> g2core_PopPart(s), dataDict |-> x.d, raised |-> FALSE]
        ELSE [self |-> s, dataDict |-> x.d, raised |-> FALSE]

(***************************************************************************)
(* The calls made on the adapter.                                          *)
(***************************************************************************)
\* a G-code line of 110 bytes
LongLine == [i \in 1..110 |-> IF i = 110 THEN "\n" ELSE "G"]

Cmds == {<<>>, cmdStatus, getCycleStartCmd, getFeedHoldCmd,
         <<"X", "1", "\n">>, <<"G", "0", "?", "\n">>, LongLine}

Periods == {200}

\* The record of a call.  freed: the bytes it took off bufferUsed; preLen: the
\* length of the pending-length queue when it was made; ok: for an encode,
\* whether okToSend held of the command when it was made.
Ret(op, arg, out, raised, sent, s0, s1, ok) ==
    [op |-> op, arg |-> arg, out |-> out, raised |-> raised, sent |-> sent,
     freed |-> s0.inputBufferSize - s1.inputBufferSize,
     preLen |-> Len(s0.inputBufferPart), ok |-> ok]

\* a line whose decode frees buffer: GRBL "ok" and "error:"; g2core, a value
\* in which decode finds 'r' (an object with a response facet, the text ack)
FreeingLine(kind, line) ==
    IF kind = "grbl"
    THEN line.head \in {"ok", "error"}
    ELSE line.json = "textack" \/ (line.json \in {"object", "string", "array"} /\ line.hasR)

Init ==
    /\ self \in {GRBL_new, g2core_new}
    /\ stateData \in [machineStatusAutoRefresh : {TRUE},
                      machineStatusAutoRefreshPeriod : Periods]
    /\ now = 0
    /\ ret = Ret("new", None, None, FALSE, <<>>, self, self, FALSE)
    /\ sentLens = <<>>
    /\ nAck = 0
    /\ nPop = 0
    /\ owed = 0

\* the history of an encode: a command is accounted when its length is queued
EncodeHistory(e) ==
    /\ sentLens' = IF Len(e.self.inputBufferPart) > Len(self.inputBufferPart)
                   THEN Append(sentLens, Len(e.data)) ELSE sentLens
    /\ UNCHANGED <<nAck, nPop>>

\* an encode that accounts a status-poll byte
AccountsPoll(kind, data, bookeeping) ==
    kind = "grbl" /\ bookeeping /\ Find(data, cmdStatus)

EncodeBounds(data, bookeeping, e) ==
    /\ Len(e.self.inputBufferPart) > Len(self.inputBufferPart)
          => Len(sentLens) < MaxSent
    /\ AccountsPoll(self.kind, data, bookeeping)
          => self.inputBufferSize - SumSeq(self.inputBufferPart) < MaxPolls

\* the history of a decode
DecodeHistory(line) ==
    /\ nAck' = IF FreeingLine(self.kind, line) THEN nAck + 1 ELSE nAck
    /\ nPop' = IF FreeingLine(self.kind, line) /\ self.inputBufferPart /= <<>>
               THEN nPop + 1 ELSE nPop
    /\ UNCHANGED sentLens

DecodeBounds(line) ==
    /\ FreeingLine(self.kind, line) /\ self.inputBufferPart = <<>>
          => nAck - nPop < MaxEmptyAcks
    /\ self.kind = "grbl" /\ line.head = "status" /\ self.inputBufferSize >= 1
          => SumSeq(self.inputBufferPart) - self.inputBufferSize < MaxStray

ResetHistory ==
    /\ sentLens' = <<>>
    /\ nAck' = 0
    /\ nPop' = 0

GRBL_Encode(data, bookeeping) ==
    /\ self.kind = "grbl"
    /\ LET e == GRBL_encode(self, data, bookeeping)
       IN  /\ EncodeBounds(data, bookeeping, e)
           /\ self' = e.self
           /\ ret' = Ret("encode", [data |-> data, bookeeping |-> bookeeping],
                         e.data, FALSE, <<>>, self, e.self,
                         GRBL_okToSend(self, data))
           /\ EncodeHistory(e)
    /\ UNCHANGED <<stateData, now, owed>>

GRBL_Decode(line) ==
    /\ self.kind = "grbl"
    /\ DecodeBounds(line)
    /\ LET r == GRBL_decode(self, line, now, stateData.machineStatusAutoRefreshPeriod)
       IN  /\ self' = r.self
           /\ ret' = Ret("decode", line, r.dataDict, r.raised, <<>>, self, r.self,
                         FALSE)
    /\ DecodeHistory(line)
    /\ UNCHANGED <<stateData, now, owed>>

GRBL_Init ==
    /\ self.kind = "grbl"
    /\ self' = GRBL_init(self)
    /\ ret' = Ret("reset", None, None, FALSE, <<>>, self, self', FALSE)
    /\ ResetHistory
    /\ UNCHANGED <<stateData, now, owed>>

GRBL_DoInitComm ==
    /\ self.kind = "grbl"
    /\ LET r == GRBL_doInitComm(self, now, stateData.machineStatusAutoRefreshPeriod)
       IN  /\ self' = r.self
           /\ ret' = Ret("doInitComm", None, None, FALSE, r.sent, self, r.self,
                         FALSE)
    /\ ResetHistory
    /\ UNCHANGED <<stateData, now, owed>>

\* init(state_data)
GRBL_MachInit ==
    /\ self.kind = "grbl"
    /\ self' = [self EXCEPT !.machineAutoRefresh = stateData.machineStatusAutoRefresh]
    /\ ret' = Ret("init", None, None, FALSE, <<>>, self, self', FALSE)
    /\ UNCHANGED <<stateData, now, sentLens, nAck, nPop, owed>>

g2core_Encode(data, bookeeping) ==
    /\ self.kind = "g2core"
    /\ LET e == g2core_encode(self, data, bookeeping)
       IN  /\ EncodeBounds(data, bookeeping, e)
           /\ self' = e.self
           /\ ret' = Ret("encode", [data |-> data, bookeeping |-> bookeeping],
                         e.data, FALSE, <<>>, self, e.self,
                         g2core_okToSend(self, data))
           /\ EncodeHistory(e)
    /\ UNCHANGED <<stateData, now, owed>>

g2core_Decode(line) ==
    /\ self.kind = "g2core"
    /\ DecodeBounds(line)
    /\ LET r == g2core_decode(self, line)
       IN  /\ self' = r.self
           /\ ret' = Ret("decode", line, r.dataDict, r.raised, <<>>, self, r.self,
                         FALSE)
    /\ DecodeHistory(line)
    /\ UNCHANGED <<stateData, now, owed>>

g2core_Reset ==
    /\ self.kind = "g2core"
    /\ self' = g2core_reset(self)
    /\ ret' = Ret("reset", None, None, FALSE, <<>>, self, self', FALSE)
    /\ ResetHistory
    /\ UNCHANGED <<stateData, now, owed>>

Next ==
    \/ \E data \in Cmds, bookeeping \in BOOLEAN : GRBL_Encode(data, bookeeping)
    \/ \E line \in GrblLines : GRBL_Decode(line)
    \/ GRBL_Init
    \/ GRBL_DoInitComm
    \/ GRBL_MachInit
    \/ \E data \in Cmds, bookeeping \in BOOLEAN : g2core_Encode(data, bookeeping)
    \/ \E line \in G2Lines : g2core_Decode(line)
    \/ g2core_Reset

Spec == Init /\ [][Next]_vars

(***************************************************************************)
(* The GRBL adapter when only data-bearing commands are encoded: none with *)
(* the status-poll character, no cycle-start, no feed-hold.                *)
(***************************************************************************)
DataCmds == {<<"X", "1", "\n">>, LongLine}

InitData == Init /\ self = GRBL_new

NextData ==
    \/ \E data \in DataCmds, bookeeping \in BOOLEAN : GRBL_Encode(data, bookeeping)
    \/ \E line \in GrblLines : GRBL_Decode(line)
    \/ GRBL_Init

SpecData == InitData /\ [][NextData]_vars

(***************************************************************************)
(* Both adapters when the caller encodes a command, with bookkeeping, only *)
(* while okToSend holds of it.                                             *)
(***************************************************************************)
GRBL_EncodeGated(data, bookeeping) ==
    /\ bookeeping => GRBL_okToSend(self, data)
    /\ GRBL_Encode(data, bookeeping)

g2core_EncodeGated(data, bookeeping) ==
    /\ bookeeping => g2core_okToSend(self, data)
    /\ g2core_Encode(data, bookeeping)

NextGated ==
    \/ \E data \in Cmds, bookeeping \in BOOLEAN : GRBL_EncodeGated(data, bookeeping)
    \/ \E line \in GrblLines : GRBL_Decode(line)
    \/ GRBL_Init
    \/ \E data \in Cmds, bookeeping \in BOOLEAN : g2core_EncodeGated(data, bookeeping)
    \/ \E line \in G2Lines : g2core_Decode(line)
    \/ g2core_Reset

SpecGated == Init /\ [][NextGated]_vars

(***************************************************************************)
(* The GRBL adapter with its scheduler: the caller writes texts, decodes   *)
(* lines, calls tick, switches the auto-refresh option of the session's    *)
(* state data, and time passes.                                            *)
(***************************************************************************)
\* a G-code line of 114 bytes: bufferUsed + 1 passes the watermark after it
FullLine == [i \in 1..114 |-> IF i = 114 THEN "\n" ELSE "G"]

WriteTexts == {<<"X", "1", "\n">>, FullLine}

\* the instants at which calls are made, in milliseconds: three in one clock
\* minute, one at its end, one in the next
Instants == {0, 100, 250, 59900, 60050}

SchedLines ==
    {GrblLine("status", t, "", FALSE) : t \in {"Idle", "Run"}}
    \cup {GrblLine("ok", "", "", FALSE), GrblLine("init", "", "", FALSE),
          GrblLine("other", "", "", TRUE)}

InitSched ==
    /\ self = GRBL_new
    /\ stateData \in [machineStatusAutoRefresh : BOOLEAN,
                      machineStatusAutoRefreshPeriod : Periods]
    /\ now = 0
    /\ ret = Ret("new", None, None, FALSE, <<>>, self, self, FALSE)
    /\ sentLens = <<>>
    /\ nAck = 0
    /\ nPop = 0
    /\ owed = 0

\* a call that may write is made while fewer than MaxSent commands are pending
\* and fewer than MaxPolls status polls are accounted beyond them
WriteBounds ==
    /\ Len(self.inputBufferPart) < MaxSent
    /\ self.inputBufferSize - SumSeq(self.inputBufferPart) < MaxPolls

GRBL_Tick ==
    /\ self.kind = "grbl"
    /\ WriteBounds
    /\ LET r == GRBL_tick(self, now, stateData)
       IN  /\ self' = r.self
           /\ ret' = Ret("tick", None, r.parts, FALSE, r.sent, self, r.self, FALSE)
    /\ UNCHANGED <<stateData, now, sentLens, nAck, nPop, owed>>

GRBL_Write(txData, raw_write) ==
    /\ self.kind = "grbl"
    /\ WriteBounds
    /\ LET r == GRBL_write(self, txData, raw_write, now,
                           stateData.machineStatusAutoRefreshPeriod)
       IN  /\ self' = r.self
           /\ ret' = Ret("write", [txData |-> txData, raw_write |-> raw_write],
                         None, FALSE, r.sent, self, r.self, FALSE)
    /\ UNCHANGED <<stateData, now, sentLens, nAck, nPop, owed>>

GRBL_DecodeSched(line) ==
    /\ self.kind = "grbl"
    /\ DecodeBounds(line)
    /\ LET r == GRBL_decode(self, line, now, stateData.machineStatusAutoRefreshPeriod)
       IN  /\ self' = r.self
           /\ ret' = Ret("decode", line, r.dataDict, r.raised, <<>>, self, r.self,
                         FALSE)
    /\ UNCHANGED <<stateData, now, sentLens, nAck, nPop, owed>>

\* the session switches its auto-refresh option
SetAutoRefresh ==
    /\ stateData' = [stateData EXCEPT !.machineStatusAutoRefresh = ~@]
    /\ ret' = Ret("option", None, None, FALSE, <<>>, self, self, FALSE)
    /\ UNCHANGED <<self, now, sentLens, nAck, nPop, owed>>

\* time passes
Advance(t) ==
    /\ t > now
    /\ now' = t
    /\ ret' = Ret("time", None, None, FALSE, <<>>, self, self, FALSE)
    /\ UNCHANGED <<self, stateData, sentLens, nAck, nPop, owed>>

NextSched ==
    \/ GRBL_Tick
    \/ \E txData \in WriteTexts, raw_write \in BOOLEAN : GRBL_Write(txData, raw_write)
    \/ \E line \in SchedLines : GRBL_DecodeSched(line)
    \/ GRBL_MachInit
    \/ SetAutoRefresh
    \/ \E t \in Instants : Advance(t)

SpecSched == InitSched /\ [][NextSched]_vars

(***************************************************************************)
(* The GRBL adapter and a controller that answers: one "ok" or "error:"    *)
(* line for every accounted command, one status report for every status    *)
(* poll accounted, no status report besides, and in the end every answer.  *)
(***************************************************************************)
InitDrain == Init /\ self = GRBL_new

\* encode(data, bookeeping) of what is then sent to the controller
GRBL_EncodeSent(data, bookeeping) ==
    /\ LET e == GRBL_encode(self, data, bookeeping)
       IN  /\ EncodeBounds(data, bookeeping, e)
           /\ AccountsPoll(self.kind, data, bookeeping) => owed < MaxPolls
           /\ self' = e.self
           /\ ret' = Ret("encode", [data |-> data, bookeeping |-> bookeeping],
                         e.data, FALSE, <<>>, self, e.self,
                         GRBL_okToSend(self, data))
           /\ EncodeHistory(e)
    /\ owed' = IF AccountsPoll(self.kind, data, bookeeping) THEN owed + 1 ELSE owed
    /\ UNCHANGED <<stateData, now>>

\* decode(line) of a line the controller sent
DecodeAnswer(line) ==
    /\ LET r == GRBL_decode(self, line, now, stateData.machineStatusAutoRefreshPeriod)
       IN  /\ self' = r.self
           /\ ret' = Ret("decode", line, r.dataDict, r.raised, <<>>, self, r.self,
                         FALSE)
    /\ DecodeHistory(line)
    /\ UNCHANGED <<stateData, now>>

\* the answer to the oldest accounted command not yet answered
ControllerAck(line) ==
    /\ line.head \in {"ok", "error"}
    /\ nAck < Len(sentLens)
    /\ DecodeAnswer(line)
    /\ UNCHANGED owed

\* the status report for a status poll
ControllerReport(line) ==
    /\ line.head = "status"
    /\ owed > 0
    /\ DecodeAnswer(line)
    /\ owed' = owed - 1

\* a line that answers nothing: version, startup banner, alarm, anything else
ControllerOther(line) ==
    /\ line.head \in {"version", "init", "other"}
    /\ DecodeAnswer(line)
    /\ UNCHANGED owed

\* the commands sent: the short ones of Cmds
SentCmds == Cmds \ {LongLine}

AckLines == {line \in GrblLines : line.head \in {"ok", "error"}}
ReportLines == {line \in GrblLines : line.head = "status"}
OtherLines == GrblLines \ (AckLines \cup ReportLines)

EncodeSent ==
    \E data \in SentCmds, bookeeping \in BOOLEAN : GRBL_EncodeSent(data, bookeeping)
AnswerAck == \E line \in AckLines : ControllerAck(line)
AnswerReport == \E line \in ReportLines : ControllerReport(line)

NextDrain ==
    \/ EncodeSent
    \/ AnswerAck
    \/ AnswerReport
    \/ \E line \in OtherLines : ControllerOther(line)

SpecDrain ==
    InitDrain /\ [][NextDrain]_vars /\ WF_vars(AnswerAck) /\ WF_vars(AnswerReport)

(***************************************************************************)
(* Properties.                                                             *)
(***************************************************************************)
BufferUsed == self.inputBufferSize
Pending == self.inputBufferPart
OutOfBand == {getCycleStartCmd, getFeedHoldCmd}

\* a g2core line carrying a response facet: an object with "r", the text ack
ResponseLine(line) ==
    line.json = "textack" \/ (line.json = "object" /\ line.hasR)

\* a buffer-freeing line in the sense of the design document
AckLine(kind, line) ==
    IF kind = "grbl" THEN line.head \in {"ok", "error"} ELSE ResponseLine(line)

\* C1: in both adapters bufferUsed is never negative, whatever calls were made.
C1_BufferUsedNeverNegative == BufferUsed >= 0

\* C2: bufferUsed never exceeds bufferCapacity, whatever commands were encoded
\* with bookkeeping and whatever acknowledgements were decoded.
C2_NeverAboveCapacity == BufferUsed <= self.inputBufferMaxSize

\* C3 as claimed: the k-th buffer-freeing decode frees the length of the k-th
\* accounted command.
C3_KthAckFreesKthLength ==
    (ret.op = "decode" /\ AckLine(self.kind, ret.arg) /\ nAck <= Len(sentLens))
        => ret.freed = sentLens[nAck]

\* C3, amended: the k-th decode that takes a pending length off the queue (a
\* buffer-freeing line decoded while the queue is not empty) frees the length
\* of the k-th accounted command.
C3_KthPopFreesKthLength ==
    (ret.op = "decode" /\ FreeingLine(self.kind, ret.arg) /\ ret.preLen > 0)
        => /\ nPop <= Len(sentLens)
           /\ ret.freed = sentLens[nPop]
           /\ Len(Pending) = ret.preLen - 1

C3_Witness ==
    /\ ret.op = "decode" /\ FreeingLine(self.kind, ret.arg) /\ ret.preLen > 0
    /\ nPop = 2 /\ nAck = 3
    /\ sentLens[1] /= sentLens[2]

\* C4: g2core: bufferUsed is the sum of the pending-length queue.
C4_G2BufferUsedIsQueueSum ==
    self.kind = "g2core" => BufferUsed = SumSeq(Pending)

C4_Witness ==
    /\ self.kind = "g2core"
    /\ ret.op = "decode" /\ ret.freed > 0
    /\ Len(Pending) = 1 /\ BufferUsed > 0

\* C5: GRBL, only data-bearing commands encoded: bufferUsed is the sum of the
\* pending-length queue.
C5_GrblBufferUsedIsQueueSum == BufferUsed = SumSeq(Pending)

\* C6: encoding exactly the cycle-start or the feed-hold command changes
\* neither bufferUsed nor the pending-length queue.
C6_OutOfBandUnaccounted ==
    [][(ret'.op = "encode" /\ ret'.arg.data \in OutOfBand)
       => /\ self'.inputBufferSize = self.inputBufferSize
          /\ self'.inputBufferPart = self.inputBufferPart
          /\ ret'.out = ret'.arg.data]_vars

C6_Witness ==
    /\ ret.op = "encode" /\ ret.arg.data = getFeedHoldCmd /\ ret.arg.bookeeping
    /\ self.kind = "grbl"
    /\ Len(Pending) = 1 /\ BufferUsed > 0

\* the reset of either adapter
ResetOf(s) == IF s.kind = "grbl" THEN GRBL_init(s) ELSE g2core_reset(s)

\* C7: a reset leaves bufferUsed = 0 and the queue empty, and a second reset
\* made right after it changes nothing.
C7_ResetIdempotent ==
    [][(ret'.op \in {"reset", "doInitComm"})
       => /\ self'.inputBufferSize = 0
          /\ self'.inputBufferPart = <<>>
          /\ ResetOf(self') = self'
          /\ (ret'.op = "reset" /\ ret.op \in {"reset", "doInitComm"})
                => self' = self]_vars

C7_Witness ==
    /\ ret.op = "reset"
    /\ ret.preLen = 2 /\ ret.freed > 0
    /\ BufferUsed = 0 /\ Pending = <<>>

\* C8: a buffer-freeing line decoded on an empty queue frees nothing, leaves
\* bufferUsed and the queue as they were and returns a response event.
C8_AckOnEmptyQueue ==
    [][(ret'.op = "decode" /\ AckLine(self.kind, ret'.arg) /\ self.inputBufferPart = <<>>)
       => /\ self'.inputBufferSize = self.inputBufferSize
          /\ self'.inputBufferPart = <<>>
          /\ ret'.freed = 0
          /\ ~ret'.raised
          /\ IF self.kind = "grbl"
             THEN ret'.out.r /\ ret'.out.f[1][3] = 0
             ELSE ret'.out.hasR]_vars

C8_Witness ==
    /\ ret.op = "decode" /\ AckLine(self.kind, ret.arg) /\ ret.preLen = 0
    /\ self.kind = "grbl" /\ ret.arg.head = "error"
    /\ BufferUsed = 1

\* C9: g2core decode never raises, and a line that is neither a JSON object
\* nor the text ack gives the empty event and changes nothing.
C9_G2DecodeTotal ==
    [][(self.kind = "g2core" /\ ret'.op = "decode")
       => /\ ~ret'.raised
          /\ ret'.arg.json \notin {"object", "textack"}
                => /\ ret'.out = G2EmptyDict
                   /\ self' = self]_vars

\* C10: when every encode with bookkeeping is made while okToSend holds of the
\* command, bufferUsed stays within bufferCapacity x watermarkFraction.
C10_GatedStaysUnderWatermark ==
    100 * BufferUsed <= self.inputBufferMaxSize * self.inputBufferWatermarkPrcnt

\* C11: after an accounted command is encoded on an empty queue, bufferUsed has
\* risen by the length of the bytes returned, and a buffer-freeing line decoded
\* next gives back the bufferUsed and the queue of before the encode.
C11_EncodeAckRoundTrip ==
    [][(ret.op = "encode" /\ ret.preLen = 0 /\ Len(Pending) = 1)
       => /\ 0 - ret.freed = Len(ret.out)
          /\ (ret'.op = "decode" /\ AckLine(self.kind, ret'.arg))
                => /\ self'.inputBufferSize = self.inputBufferSize + ret.freed
                   /\ self'.inputBufferPart = <<>>]_vars

\* C12: GRBL: after a line holding "ALARM:" is decoded, machineStatus is the
\* Alarm code and the event returned carries the status "Alarm".
C12_AlarmForcesStatus ==
    [][(self.kind = "grbl" /\ ret'.op = "decode" /\ ret'.arg.alarm)
       => /\ self'.machineStatus = GRBL_STATE_ALRARM
          /\ ret'.out.sr = Some("Alarm")]_vars

RunOrJog == {GRBL_STATE_RUN, GRBL_STATE_JOG}
Deadline == self.autoStatusNextMicro
Period == stateData.machineStatusAutoRefreshPeriod
CallerFlag == stateData.machineStatusAutoRefresh

\* the status poll as the flag part of tick sends it: after the deadline part,
\* and when okToSend allows
FlagPoll ==
    IF GRBL_okToSend(TickDeadline(self, now, Period).self, cmdStatus)
    THEN <<cmdStatus>> ELSE <<>>

\* C13 as claimed: a tick that finds the stored auto-refresh flag different from
\* the caller's sends one poll (okToSend allowing) and sets the deadline when
\* the stored flag is true, drops the deadline and sends no poll when it is
\* false, and stores the caller's flag.
C13_FlagChangeAsClaimed ==
    [][(ret'.op = "tick" /\ self.machineAutoRefresh /= CallerFlag)
       => /\ self'.machineAutoRefresh = CallerFlag
          /\ IF self.machineAutoRefresh
             THEN /\ ret'.out.flag = FlagPoll
                  /\ self'.autoStatusNextMicro = Some(now + Period)
             ELSE /\ ret'.out.flag = <<>>
                  /\ self'.autoStatusNextMicro = None]_vars

\* C13, amended: the two cases the other way round: the poll and the deadline
\* when the stored flag is false (auto-refresh just enabled), the deadline
\* dropped and no poll when it is true (just disabled).
C13_FlagChange ==
    [][(ret'.op = "tick" /\ self.machineAutoRefresh /= CallerFlag)
       => /\ self'.machineAutoRefresh = CallerFlag
          /\ IF ~self.machineAutoRefresh
             THEN /\ ret'.out.flag = FlagPoll
                  /\ self'.autoStatusNextMicro = Some(now + Period)
             ELSE /\ ret'.out.flag = <<>>
                  /\ self'.autoStatusNextMicro = None]_vars

C13_Witness ==
    /\ ret.op = "tick" /\ ret.out.flag = <<cmdStatus>>
    /\ self.machineAutoRefresh /\ CallerFlag
    /\ Deadline = Some(now + Period) /\ now > 0

\* C14: GRBL: a status report sets the deadline to now + period exactly when
\* its status differs from machineStatus and is Run or Jog, leaves the deadline
\* alone otherwise, and machineStatus is the report's status afterwards.
C14_StatusReportArmsDeadline ==
    [][(ret'.op = "decode" /\ ret'.arg.head = "status")
       => /\ self'.machineStatus = stat_dict_get(ret'.arg.stat)
          /\ self'.autoStatusNextMicro =
                IF /\ stat_dict_get(ret'.arg.stat) /= self.machineStatus
                   /\ stat_dict_get(ret'.arg.stat) \in RunOrJog
                THEN Some(now + Period)
                ELSE self.autoStatusNextMicro]_vars

C14_Witness ==
    /\ ret.op = "decode" /\ ret.arg.head = "status" /\ ret.arg.stat = "Run"
    /\ self.machineStatus = GRBL_STATE_RUN
    /\ now = 59900 /\ Deadline = Some(now + Period)

\* C15 as claimed: tick sends no deadline poll while machineStatus is neither
\* Run nor Jog, and leaves no deadline set when it returns with such a status.
C15_NoDeadlineOutsideRunJog ==
    [][(ret'.op = "tick")
       => /\ ret'.out.deadline /= <<>> => self.machineStatus \in RunOrJog
          /\ self.machineStatus \notin RunOrJog
                => self'.autoStatusNextMicro = None]_vars

\* C15, amended: ... leaves no deadline set when it returns with such a status,
\* unless it found the auto-refresh flag just enabled (stored false, the
\* caller's true), which sets a deadline whatever the status.
C15_NoDeadlineUnlessEnabled ==
    [][(ret'.op = "tick")
       => /\ ret'.out.deadline /= <<>> => self.machineStatus \in RunOrJog
          /\ (self.machineStatus \notin RunOrJog
              /\ ~(~self.machineAutoRefresh /\ CallerFlag))
                => self'.autoStatusNextMicro = None]_vars

C15_Witness ==
    /\ ret.op = "tick" /\ ret.out.dropped
    /\ self.machineStatus = GRBL_STATE_IDLE
    /\ Deadline = None

\* C16: GRBL tick, with a deadline set, the status Run or Jog and no change of
\* the auto-refresh flag: the poll is sent (okToSend allowing) and the deadline
\* set to now + period if and only if now is at or after the deadline.
C16_DeadlineTest ==
    [][(/\ ret'.op = "tick"
        /\ Deadline /= None
        /\ self.machineStatus \in RunOrJog
        /\ self.machineAutoRefresh = CallerFlag)
       => IF now >= Deadline[1]
          THEN /\ ret'.out.deadline = IF GRBL_okToSend(self, cmdStatus)
                                      THEN <<cmdStatus>> ELSE <<>>
               /\ self'.autoStatusNextMicro = Some(now + Period)
          ELSE /\ ret'.out.deadline = <<>>
               /\ self'.autoStatusNextMicro = Deadline]_vars

\* the number of post-init queries among the texts sent
PostInitSent(sent) == Len(SelectSeq(sent, LAMBDA x : x = cmdPostInit))

\* C17: GRBL: decoding a startup banner sets the detected flag and only tick
\* clears it; a tick sends the post-init query once when the flag is set and
\* not at all when it is not, and leaves the flag cleared.
C17_PostInitOnce ==
    [][/\ (ret'.op = "decode" /\ ret'.arg.head = "init")
             => self'.initStringDetectFlag
       /\ (ret'.op /= "tick" /\ self.initStringDetectFlag)
             => self'.initStringDetectFlag
       /\ (~self.initStringDetectFlag /\ self'.initStringDetectFlag)
             => (ret'.op = "decode" /\ ret'.arg.head = "init")
       /\ ret'.op = "tick"
             => /\ PostInitSent(ret'.sent)
                      = IF self.initStringDetectFlag THEN 1 ELSE 0
                /\ ~self'.initStringDetectFlag]_vars

C17_Witness ==
    /\ ret.op = "tick" /\ ret.out.init = <<cmdPostInit>>
    /\ ret.out.flag = <<cmdStatus>>
    /\ ~self.initStringDetectFlag

\* the text write hands to the transport for txData
WireText(txData, raw_write) ==
    IF raw_write THEN txData ELSE GRBL_encode(self, txData, FALSE).data

Settled == self.machineStatus \in SettledStates /\ self.machineAutoRefresh

\* C18 as claimed: write sends the text and then a status poll when the status
\* is Idle, Stop, Home, Sleep or Hold and auto-refresh is on, in every buffer
\* state, and only the text otherwise.
C18_WritePollsWhenSettled ==
    [][(ret'.op = "write")
       => ret'.sent = <<WireText(ret'.arg.txData, ret'.arg.raw_write)>>
                      \o (IF Settled THEN <<cmdStatus>> ELSE <<>>)]_vars

\* C18, amended: ... and then a status poll when the status is settled,
\* auto-refresh is on and okToSend holds of the poll once the text is accounted.
C18_WritePollsWhenSettledAndOk ==
    [][(ret'.op = "write")
       => ret'.sent = <<WireText(ret'.arg.txData, ret'.arg.raw_write)>>
                      \o (IF /\ Settled
                             /\ GRBL_okToSend(
                                    GRBL_BaseWrite(self, ret'.arg.txData,
                                                   ret'.arg.raw_write).self,
                                    cmdStatus)
                          THEN <<cmdStatus>> ELSE <<>>)]_vars

C18_Witness ==
    /\ ret.op = "write" /\ ~ret.arg.raw_write
    /\ self.machineStatus = GRBL_STATE_IDLE /\ self.machineAutoRefresh
    /\ ret.sent = <<FullLine>>

\* C19: GRBL encode, with bookkeeping, of a text holding "?": the bytes
\* returned are the text without its "?" and one "?" at the end; a lone "?"
\* adds 1 to bufferUsed and queues nothing; any other text adds the length of
\* the bytes returned.
C19_StatusCharCostsOneByte ==
    [][(/\ self.kind = "grbl" /\ ret'.op = "encode"
        /\ ret'.arg.bookeeping /\ Find(ret'.arg.data, cmdStatus))
       => /\ ret'.out = Replace(ret'.arg.data, cmdStatus) \o cmdStatus
          /\ IF ret'.out = cmdStatus
             THEN /\ self'.inputBufferSize = self.inputBufferSize + 1
                  /\ self'.inputBufferPart = self.inputBufferPart
             ELSE self'.inputBufferSize = self.inputBufferSize + Len(ret'.out)]_vars

\* C20: g2core: a decode takes the oldest pending length off the queue and off
\* bufferUsed when the line is a JSON object with "r" or the text ack (and the
\* queue is not empty), and changes neither for any other line.
C20_G2AckRule ==
    [][(self.kind = "g2core" /\ ret'.op = "decode")
       => IF ResponseLine(ret'.arg) /\ self.inputBufferPart /= <<>>
          THEN /\ self'.inputBufferPart = Tail(self.inputBufferPart)
               /\ self'.inputBufferSize
                     = self.inputBufferSize - Head(self.inputBufferPart)
          ELSE self' = self]_vars

\* the normalized names of the g2core stat codes 0..13, after the design
\* document's table
NormalizedName(c) ==
    <<"Init", "Ready", "Alarm", "Prog Stop", "Prog End", "Run", "Hold", "Probe",
      "Run", "Homing", "Jog", "InterLock", "Shutdown", "Panic">>[c + 1]

\* C21: g2core: decode never raises on an object with a status report, and in
\* an object it parsed to the end the stat code c in 0..13 is replaced by the
\* c-th name of the table.
C21_StatTranslation ==
    [][(/\ self.kind = "g2core" /\ ret'.op = "decode"
        /\ ret'.arg.json = "object")
       => /\ ~ret'.raised
          /\ (/\ ret'.out.ib /= None
              /\ ret'.out.sr.t = "object"
              /\ ret'.out.sr.stat /= None
              /\ ret'.out.sr.stat[1] \in 0..13)
                => ret'.out.statName = NormalizedName(ret'.out.sr.stat[1])]_vars

\* C22: the bufferUsed of the buffer-state facet of a decoded event is the
\* adapter's bufferUsed when decode returns.
C22_BufferFacetCurrent ==
    (ret.op = "decode" /\ ret.out.ib /= None) => ret.out.ib[1][2] = BufferUsed

AllAnswered == nAck = Len(sentLens) /\ owed = 0
Drained == Pending = <<>> /\ BufferUsed = 0

====
